---- MODULE Spec2Model ----
(***************************************************************************)
(* The workflow engine of the multimodal debugging assistant:              *)
(*   backend/services/ai_agent_service.py  planner, executor, extractors,  *)
(*                                         suggestion compiler             *)
(*   backend/main.py                       session queue, workflow table,  *)
(*                                         background runner, polling      *)
(* The generative service, the file system and the content of an input are *)
(* the environment: a handler's outcome is drawn from OutcomesOf.          *)
(***************************************************************************)
EXTENDS Integers, Sequences, FiniteSets, TLC

\* ------------------------------------------------------------------ bounds
\* length of the input list of a workflow
MaxInputs == 2

\* ----------------------------------------------------------- enumerations
InputType == {"code", "logs", "screenshot", "error_trace", "diagram"}
TaskStatus == {"pending", "running", "completed", "failed"}
WorkflowStatus == {"analyzing", "completed", "failed"}
SuggestionType == {"code_fix", "configuration", "dependency", "architecture"}

SessionIds == {"default"}
WorkflowIds == {"wf1"}
ExceptionMessages == {"boom"}

Min(a, b) == IF a < b THEN a ELSE b
Max(a, b) == IF a > b THEN a ELSE b
\* Fault variant of Take: the slice keeps the whole list.
TakeAll(s, n) == s
Take(s, n) == SubSeq(s, 1, Min(n, Len(s)))

\* An input as add_debug_input stores it: a fresh id and its kind (content
\* and metadata are read by the handlers only, whose outcome is drawn below).
DebugInput(id, type) == [id |-> id, type |-> type, is_file |-> FALSE]
\* An input as upload_file stores it: content is the path of the saved file and
\* metadata.is_file is set.
UploadedInput(id, type) == [id |-> id, type |-> type, is_file |-> TRUE]

\* ------------------------------------------------------- task results
\* task.result = None
NoResult == [tag |-> "none"]
NoError == "None"

\* The text of a raw (non-JSON) reply, by what the code looks at:
\*   long            len(text) > 50
\*   mentions_error  "error" or "exception" occurs in text.lower()
\*   bracket         "leading": text.strip() starts with '[';
\*                   "embedded": re.search(r'\[.*?\]') finds a substring;
\*                   "none": neither
\*   parses          json.loads of the bracketed substring succeeds
\*   items           the elements of that array
\*   headings        numbered lines ('1.'..'5.') that carry a **title**
Text(long, mentions_error, bracket, parses, items, headings) ==
    [long |-> long, mentions_error |-> mentions_error, bracket |-> bracket,
     parses |-> parses, items |-> items, headings |-> headings]

\* What _call_gemini_api returns.
\* json.loads(text) succeeded and the value is falsy ({}, [], null, 0, "")
Falsy == [tag |-> "falsy"]
\* json.loads(text) gave a dict that has the key "error_types"
Errors(error_types, severity_levels) ==
    [tag |-> "errors", error_types |-> error_types, severity_levels |-> severity_levels]
\* json.loads(text) gave another non-empty dict
OtherDict == [tag |-> "dict"]
\* json.loads(text) gave a non-empty array
Array(items) == [tag |-> "list", items |-> items]
\* {"raw_response": text, "parsed": False}
Raw(text) == [tag |-> "raw", text |-> text]
\* {"error": ..., "details": ...}
ErrorShaped == [tag |-> "error"]
\* json.loads(text) gave a dict whose "error_types" is not a list (a number)
MistypedErrors == [tag |-> "mistyped"]

\* What _analyze_code returns.
CodeResult(direct_issues, ai_analysis) ==
    [tag |-> "code", direct_issues |-> direct_issues, ai_analysis |-> ai_analysis]
\* What _analyze_multimodal returns (a fixed non-empty dict).
MultimodalResult == [tag |-> "multimodal"]

\* Python truthiness and isinstance(x, dict) of a result value.
Truthy(r) == r.tag \notin {"none", "falsy"}
IsDict(r) == r.tag \in {"errors", "dict", "raw", "error", "code", "multimodal", "mistyped"}

\* ---------------------------------------------------------- Task Planner
AgentTask(id, agentId, type, input) ==
    [id |-> id, agentId |-> agentId, type |-> type, input |-> input,
     status |-> "pending", result |-> NoResult, error |-> NoError]

\* task.input: one input's dict, or the list of every input's dict
OneInput(inp) == [whole |-> FALSE, items |-> <<inp>>]
AllInputs(inputs) == [whole |-> TRUE, items |-> inputs]

\* Fault variant of PlanInput: error_trace is not recognised as an error kind
\* and falls through to the code branch.
PlanInputTraceAsCode(inp, k) ==
    IF inp.type \in {"logs"}
    THEN <<AgentTask(k, "error-extractor", "error_extraction", OneInput(inp))>>
    ELSE IF inp.type \in {"code", "error_trace"}
    THEN <<AgentTask(k, "code-analyzer", "code_analysis", OneInput(inp))>>
    ELSE IF inp.type \in {"screenshot", "diagram"}
    THEN <<AgentTask(k, "multimodal-analyzer", "multimodal_analysis", OneInput(inp))>>
    ELSE <<>>

\* the body of the planner's loop for one input, task_counter = k
PlanInput(inp, k) ==
    IF inp.type \in {"logs", "error_trace"}
    THEN <<AgentTask(k, "error-extractor", "error_extraction", OneInput(inp))>>
    ELSE IF inp.type = "code"
    THEN <<AgentTask(k, "code-analyzer", "code_analysis", OneInput(inp))>>
    ELSE IF inp.type \in {"screenshot", "diagram"}
    THEN <<AgentTask(k, "multimodal-analyzer", "multimodal_analysis", OneInput(inp))>>
    ELSE <<>>

RECURSIVE PlanLoop(_, _, _)
PlanLoop(inputs, k, tasks) ==
    IF k > Len(inputs) THEN tasks
    ELSE PlanLoop(inputs, k + 1, tasks \o PlanInput(inputs[k], k))

\* Fault variant of _plan_tasks: the documentation search is appended without
\* the "if tasks" test.
PlanTasksAlwaysDoc(inputs) ==
    LET tasks == PlanLoop(inputs, 1, <<>>)
        task_counter == Len(inputs) + 1
    IN  tasks \o <<AgentTask(task_counter, "doc-retriever", "documentation_search",
                             AllInputs(inputs)),
                   AgentTask(task_counter + 1, "fix-generator", "fix_generation",
                             AllInputs(inputs))>>

\* Fault variant of _plan_tasks: the fix generation is appended before the
\* documentation search.
PlanTasksFixBeforeDoc(inputs) ==
    LET tasks == PlanLoop(inputs, 1, <<>>)
        task_counter == Len(inputs) + 1
        withFix == Append(tasks, AgentTask(task_counter, "fix-generator", "fix_generation",
                                           AllInputs(inputs)))
    IN  IF tasks # <<>>
        THEN Append(withFix, AgentTask(task_counter + 1, "doc-retriever",
                                       "documentation_search", AllInputs(inputs)))
        ELSE withFix

_plan_tasks(inputs) ==
    LET tasks == PlanLoop(inputs, 1, <<>>)
        task_counter == Len(inputs) + 1
        withDoc == IF tasks # <<>>
                   THEN Append(tasks, AgentTask(task_counter, "doc-retriever",
                                                "documentation_search", AllInputs(inputs)))
                   ELSE tasks
        counter2 == IF tasks # <<>> THEN task_counter + 1 ELSE task_counter
    IN  Append(withDoc, AgentTask(counter2, "fix-generator", "fix_generation",
                                  AllInputs(inputs)))

\* ----------------------------------------------------- Result Extractors
ErrorFact(type, severity, confidence) ==
    [type |-> type, severity |-> severity, confidence |-> confidence]

\* Fault variant of _extract_error_details: every error type is given the
\* first severity of the list.
ExtractErrorDetailsFirstSeverity(analysis_result) ==
    IF IsDict(analysis_result) /\ analysis_result.tag = "errors"
    THEN [i \in 1..Len(analysis_result.error_types) |->
            LET severity == IF 1 <= Len(analysis_result.severity_levels)
                            THEN analysis_result.severity_levels[1] ELSE "medium"
            IN  ErrorFact(analysis_result.error_types[i], severity,
                          IF severity \in {"critical", "high"} THEN 85 ELSE 70)]
    ELSE IF IsDict(analysis_result) /\ analysis_result.tag = "raw"
    THEN IF analysis_result.text.mentions_error
         THEN <<ErrorFact("Runtime Error", "high", 75)>>
         ELSE <<>>
    ELSE <<>>

_extract_error_details(analysis_result) ==
    IF IsDict(analysis_result) /\ analysis_result.tag = "errors"
    THEN [i \in 1..Len(analysis_result.error_types) |->
            LET severity == IF i <= Len(analysis_result.severity_levels)
                            THEN analysis_result.severity_levels[i] ELSE "medium"
            IN  ErrorFact(analysis_result.error_types[i], severity,
                          IF severity \in {"critical", "high"} THEN 85 ELSE 70)]
    ELSE IF IsDict(analysis_result) /\ analysis_result.tag = "raw"
    THEN IF analysis_result.text.mentions_error
         THEN <<ErrorFact("Runtime Error", "high", 75)>>
         ELSE <<>>
    ELSE <<>>

\* a code-issue fact; description is "None" when the source value was null
CodeFact(category, confidence, severity, description) ==
    [category |-> category, confidence |-> confidence, severity |-> severity,
     description |-> description]

\* an issue of the heuristic scanner (_analyze_js_code, _analyze_python_code)
DirectIssue(type, severity) == [type |-> type, severity |-> severity]

\* an element of a JSON array of issues: is_dict, and the values of its
\* "type" and "description" keys ("None" for null)
Item(is_dict, type, description) ==
    [is_dict |-> is_dict, type |-> type, description |-> description]

\* str.replace("_", " ").title() on the issue types the prompt asks for
TitleCase(type) ==
    CASE type = "syntax_error" -> "Syntax Error"
      [] type = "logic_error" -> "Logic Error"
      [] type = "best_practice" -> "Best Practice"
      [] OTHER -> type

DirectFacts(direct_issues) ==
    [i \in 1..Len(direct_issues) |->
        CodeFact(direct_issues[i].type,
                 IF direct_issues[i].severity = "high" THEN 90 ELSE 75,
                 direct_issues[i].severity, "text")]

\* the loop over a parsed array; ai_issue.get("type").replace raises on a
\* null type, which the extractor's outer except turns into "return issues"
RECURSIVE ItemFacts(_, _, _)
ItemFacts(items, i, issues) ==
    IF i > Len(items) THEN issues
    ELSE IF ~items[i].is_dict THEN ItemFacts(items, i + 1, issues)
    ELSE IF items[i].type = "None" THEN issues
    ELSE ItemFacts(items, i + 1,
                   Append(issues, CodeFact(TitleCase(items[i].type), 85, "medium",
                                           items[i].description)))

\* the except json.JSONDecodeError branch; re is a local name bound only by
\* the import in the embedded branch
LineHeuristic(text, issues, re_bound) ==
    IF text.headings > 0
    THEN IF re_bound
         THEN issues \o [i \in 1..text.headings |-> CodeFact("heading", 80, "None", "text")]
         ELSE issues
    ELSE IF issues = <<>> /\ text.long
         THEN <<CodeFact("AI Code Analysis", 75, "None", "text")>>
         ELSE issues

RawResponseFacts(text, issues) ==
    IF text.bracket = "leading"
    THEN LineHeuristic(text, issues, FALSE)
    ELSE IF text.bracket = "embedded"
    THEN IF text.parses THEN ItemFacts(text.items, 1, issues)
         ELSE LineHeuristic(text, issues, TRUE)
    ELSE LineHeuristic(text, issues, TRUE)

_extract_code_issues(analysis_result) ==
    IF IsDict(analysis_result) /\ analysis_result.tag = "code"
    THEN LET issues == DirectFacts(analysis_result.direct_issues)
             ai_analysis == analysis_result.ai_analysis
         IN  IF IsDict(ai_analysis) /\ ai_analysis.tag = "raw"
             THEN RawResponseFacts(ai_analysis.text, issues)
             ELSE issues
    ELSE <<>>

\* Does the try body of _extract_error_details raise on this result:
\* enumerate() of an "error_types" that is not iterable.
ErrorDetailsBodyRaises(analysis_result) == analysis_result.tag = "mistyped"

\* Does the try body of _extract_code_issues raise on this result: .replace on
\* a null "type" of an array element; re used before the import that binds it
\* (a reply that starts with '[' and has heading lines); and, for a value
\* that is no dict and no container, the test '"raw_response" in' at line 912.
CodeIssuesBodyRaises(analysis_result) ==
    \/ analysis_result.tag \in {"none", "falsy"}
    \/ /\ analysis_result.tag = "code"
       /\ analysis_result.ai_analysis.tag = "raw"
       /\ LET text == analysis_result.ai_analysis.text IN
          \/ /\ text.bracket = "embedded"
             /\ text.parses
             /\ \E i \in 1..Len(text.items) : text.items[i].is_dict /\ text.items[i].type = "None"
          \/ /\ text.bracket = "leading"
             /\ text.headings > 0

\* Fault variant of Propagates: the extractors have no except clause.
PropagatesUncaught(raises) == raises

\* "except Exception as e: print(...)" around the body of each extractor
\* (lines 728-729, 927-928): what of an exception of the body reaches the caller
Propagates(raises) == FALSE

\* -------------------------------------------------- Suggestion Compiler
FixSuggestion(title, confidence, type, relatedInputs, agent) ==
    [title |-> title, confidence |-> confidence, type |-> type,
     relatedInputs |-> relatedInputs, agent |-> agent]

\* Fault variant of InputIds: a suggestion is attributed to the first input only.
InputIdsFirstOnly(inputs) == Take([i \in 1..Len(inputs) |-> inputs[i].id], 1)

InputIds(inputs) == [i \in 1..Len(inputs) |-> inputs[i].id]

\* the first loop: errors_found, code_issues, analysis_content
RECURSIVE Gather(_, _, _)
Gather(tasks, i, acc) ==
    IF i > Len(tasks) THEN acc
    ELSE LET task == tasks[i] IN
         IF task.status = "completed" /\ Truthy(task.result)
         THEN Gather(tasks, i + 1,
                [errors_found |->
                    IF task.type = "error_extraction"
                    THEN acc.errors_found \o _extract_error_details(task.result)
                    ELSE acc.errors_found,
                 code_issues |->
                    IF task.type = "code_analysis"
                    THEN acc.code_issues \o _extract_code_issues(task.result)
                    ELSE acc.code_issues,
                 analysis_content |->
                    Append(acc.analysis_content,
                           [agent |-> task.agentId, type |-> task.type,
                            result |-> task.result])])
         ELSE Gather(tasks, i + 1, acc)

\* does this analysis carry a raw reply of more than 50 characters
HasLongRawResponse(analysis) ==
    /\ IsDict(analysis.result)
    /\ analysis.result.tag = "code"
    /\ IsDict(analysis.result.ai_analysis)
    /\ analysis.result.ai_analysis.tag = "raw"
    /\ analysis.result.ai_analysis.text.long

\* Fault variant of LateStages: the analysis content is processed whether or
\* not the earlier stages gave a suggestion.
LateStagesAlways(suggestions, analysis_content, ids) ==
    LET hits == {i \in 1..Len(analysis_content) : HasLongRawResponse(analysis_content[i])}
        first == CHOOSE i \in hits : \A j \in hits : i <= j
    IN  IF analysis_content # <<>>
        THEN IF hits # {}
             THEN Append(suggestions,
                         FixSuggestion(<<"Code Quality Improvements">>, 80, "code_fix", ids,
                                       <<"AI", analysis_content[first].type, "Agent">>))
             ELSE IF suggestions = <<>>
             THEN <<FixSuggestion(<<"AI Analysis Unavailable">>, 30, "configuration", ids,
                                  <<"System">>)>>
             ELSE suggestions
        ELSE suggestions

\* lines 470-576: the synthesis from a raw reply and the terminal fallback
LateStages(suggestions, analysis_content, ids) ==
    LET hits == {i \in 1..Len(analysis_content) : HasLongRawResponse(analysis_content[i])}
        first == CHOOSE i \in hits : \A j \in hits : i <= j
    IN  IF suggestions = <<>> /\ analysis_content # <<>>
        THEN IF hits # {}
             THEN <<FixSuggestion(<<"Code Quality Improvements">>, 80, "code_fix", ids,
                                  <<"AI", analysis_content[first].type, "Agent">>)>>
             ELSE <<FixSuggestion(<<"AI Analysis Unavailable">>, 30, "configuration", ids,
                                  <<"System">>)>>
        ELSE suggestions

\* [raised |-> a FixSuggestion failed validation, suggestions |-> the list]
_compile_suggestions(workflow) ==
    LET g == Gather(workflow.tasks, 1,
                    [errors_found |-> <<>>, code_issues |-> <<>>, analysis_content |-> <<>>])
        ids == InputIds(workflow.inputs)
        top_errors == Take(g.errors_found, 3)
        top_issues == Take(g.code_issues, 2)
        from_errors == [i \in 1..Len(top_errors) |->
            FixSuggestion(<<"Fix", top_errors[i].type, "Issue">>,
                          Max(70, Min(95, top_errors[i].confidence)),
                          "code_fix", ids, <<"Error Analysis Agent">>)]
        from_issues == [i \in 1..Len(top_issues) |->
            FixSuggestion(<<"Improve", top_issues[i].category>>,
                          Max(60, Min(90, top_issues[i].confidence)),
                          "code_fix", ids, <<"Code Analysis Agent">>)]
        suggestions == from_errors \o from_issues
        escaped == \E i \in 1..Len(workflow.tasks) :
            LET task == workflow.tasks[i] IN
            /\ task.status = "completed"
            /\ Truthy(task.result)
            /\ \/ /\ task.type = "error_extraction"
                  /\ Propagates(ErrorDetailsBodyRaises(task.result))
               \/ /\ task.type = "code_analysis"
                  /\ Propagates(CodeIssuesBodyRaises(task.result))
    IN  IF escaped \/ \E i \in 1..Len(top_issues) : top_issues[i].description = "None"
        THEN [raised |-> TRUE, suggestions |-> <<>>]
        ELSE [raised |-> FALSE,
              suggestions |-> LateStages(suggestions, g.analysis_content, ids)]

\* ------------------------------------------------ outcomes of a handler
\* Replies of the generative service the executions are explored with.
ProseText == Text(TRUE, TRUE, "none", FALSE, <<>>, 0)
CitationText == Text(TRUE, FALSE, "embedded", TRUE, <<Item(FALSE, "None", "None")>>, 0)
NullDescriptionText ==
    Text(TRUE, FALSE, "embedded", TRUE, <<Item(TRUE, "logic_error", "None")>>, 0)

GeminiOutcomes ==
    {Falsy, Errors(<<"TypeError", "KeyError">>, <<"high">>), Raw(ProseText), ErrorShaped}

CodeOutcomes ==
    {CodeResult(<<>>, ai) :
        ai \in {Falsy, ErrorShaped, Raw(ProseText), Raw(CitationText), Raw(NullDescriptionText)}}
    \cup {CodeResult(<<DirectIssue("Debug Code", "low")>>, ErrorShaped)}

\* More replies, explored for the one task that reads them: prose that names
\* no error, a dict without "error_types", a JSON array, and an error list
\* longer than the compiler's cut of three.
QuietText == Text(TRUE, FALSE, "none", FALSE, <<>>, 0)
IssueArray == Array(<<Item(TRUE, "logic_error", "text"), Item(TRUE, "security", "text")>>)

NullTypeText ==
    Text(TRUE, FALSE, "embedded", TRUE,
         <<Item(TRUE, "logic_error", "text"), Item(TRUE, "None", "text")>>, 0)
LeadingHeadingsText == Text(TRUE, FALSE, "leading", FALSE, <<>>, 2)

ExtractionOutcomes ==
    GeminiOutcomes
    \cup {Errors(<<"TypeError", "KeyError", "ValueError", "IOError">>, <<"critical", "low">>),
          Raw(QuietText), OtherDict, IssueArray, MistypedErrors}

AnalysisOutcomes ==
    CodeOutcomes
    \cup {CodeResult(<<DirectIssue("Debug Code", "low"), DirectIssue("Equality", "high"),
                       DirectIssue("Variables", "medium")>>, Falsy),
          CodeResult(<<DirectIssue("Equality", "high")>>, IssueArray),
          CodeResult(<<>>, IssueArray),
          CodeResult(<<>>, Raw(NullTypeText)),
          CodeResult(<<>>, Raw(LeadingHeadingsText))}

\* the values the awaited handler of a task of this type may return
OutcomesOf(type) ==
    CASE type = "error_extraction" -> ExtractionOutcomes
      [] type = "code_analysis" -> AnalysisOutcomes
      [] type = "multimodal_analysis" -> {MultimodalResult}
      [] type = "documentation_search" -> GeminiOutcomes
      [] type = "fix_generation" -> GeminiOutcomes
      [] OTHER -> {NoResult}

TaskTypes ==
    {"error_extraction", "code_analysis", "multimodal_analysis", "documentation_search",
     "fix_generation"}
AllOutcomes == UNION {OutcomesOf(type) : type \in TaskTypes}

\* handlers that await the file system or the generative service
Awaits(type) == type # "multimodal_analysis"

\* ------------------------------------------------------------------ state
VARIABLES
    analysis_queue,     \* main.py: session id -> the session's collected inputs
    workflows,          \* the AgentWorkflow objects, by workflow id
    frames,             \* the coroutine executing each workflow
    ids_issued,         \* input ids handed out so far
    uploads             \* the uploads directory: ids of the inputs whose file exists

vars == <<analysis_queue, workflows, frames, ids_issued, uploads>>

\* progress is a float in the code; it is kept here as the exact fraction
Fraction(num, den) == [num |-> num, den |-> den]
Leq(p, q) == p.num * q.den <= q.num * p.den
Same(p, q) == p.num * q.den = q.num * p.den

NoSession == [present |-> FALSE, inputs |-> <<>>, status |-> "none", workflow_id |-> "none"]
NoWorkflow ==
    [present |-> FALSE, stored |-> FALSE, inputs |-> <<>>, tasks |-> <<>>,
     suggestions |-> <<>>, status |-> "none", progress |-> Fraction(0, 1)]
AgentWorkflow(inputs, tasks, stored) ==
    [present |-> TRUE, stored |-> stored, inputs |-> inputs, tasks |-> tasks,
     suggestions |-> <<>>, status |-> "analyzing", progress |-> Fraction(0, 1)]
NoFrame == [pc |-> "none", idx |-> 0, completed_tasks |-> 0, total_tasks |-> 0, content |-> {}]

Init ==
    /\ analysis_queue = [s \in SessionIds |-> NoSession]
    /\ workflows = [w \in WorkflowIds |-> NoWorkflow]
    /\ frames = [w \in WorkflowIds |-> NoFrame]
    /\ ids_issued = 0
    /\ uploads = {}

\* ------------------------------------------------------------ operations
add_debug_input(session_id, type) ==
    /\ ids_issued < MaxInputs
    /\ ids_issued' = ids_issued + 1
    /\ analysis_queue' =
         [analysis_queue EXCEPT ![session_id] =
            [present |-> TRUE,
             inputs |-> Append(@.inputs, DebugInput(ids_issued + 1, type)),
             status |-> IF @.present THEN @.status ELSE "collecting",
             workflow_id |-> @.workflow_id]]
    /\ UNCHANGED <<workflows, frames, uploads>>

\* Fault variant of upload_file: start_analysis handed the session's own list
\* to the workflow, so a later upload reaches the workflow's inputs.
UploadFileAliased(session_id, type) ==
    /\ ids_issued < MaxInputs
    /\ ids_issued' = ids_issued + 1
    /\ uploads' = uploads \cup {ids_issued + 1}
    /\ analysis_queue' =
         [analysis_queue EXCEPT ![session_id] =
            [present |-> TRUE,
             inputs |-> Append(@.inputs, UploadedInput(ids_issued + 1, type)),
             status |-> IF @.present THEN @.status ELSE "collecting",
             workflow_id |-> @.workflow_id]]
    /\ workflows' = [w \in DOMAIN workflows |->
            IF workflows[w].present /\ analysis_queue[session_id].workflow_id = w
            THEN [workflows[w] EXCEPT
                    !.inputs = Append(@, UploadedInput(ids_issued + 1, type))]
            ELSE workflows[w]]
    /\ UNCHANGED frames

\* POST /debug/upload: the file is saved under uploads/ and an input that
\* points to it is appended to the session
upload_file(session_id, type) ==
    /\ ids_issued < MaxInputs
    /\ ids_issued' = ids_issued + 1
    /\ uploads' = uploads \cup {ids_issued + 1}
    /\ analysis_queue' =
         [analysis_queue EXCEPT ![session_id] =
            [present |-> TRUE,
             inputs |-> Append(@.inputs, UploadedInput(ids_issued + 1, type)),
             status |-> IF @.present THEN @.status ELSE "collecting",
             workflow_id |-> @.workflow_id]]
    /\ UNCHANGED <<workflows, frames>>

\* Fault variant of clear_session: the session's workflow is dropped with it.
ClearSessionDropsWorkflow(session_id) ==
    /\ analysis_queue[session_id].present
    /\ uploads' = uploads \ {analysis_queue[session_id].inputs[i].id :
                                i \in {k \in 1..Len(analysis_queue[session_id].inputs) :
                                          analysis_queue[session_id].inputs[k].is_file}}
    /\ analysis_queue' = [analysis_queue EXCEPT ![session_id] = NoSession]
    /\ workflows' = [w \in DOMAIN workflows |->
            IF analysis_queue[session_id].workflow_id = w THEN NoWorkflow ELSE workflows[w]]
    /\ frames' = [w \in DOMAIN frames |->
            IF analysis_queue[session_id].workflow_id = w THEN NoFrame ELSE frames[w]]
    /\ UNCHANGED ids_issued

\* DELETE /debug/session/{session_id}: the files of the session's uploaded
\* inputs are removed and the session is deleted from the queue
clear_session(session_id) ==
    /\ analysis_queue[session_id].present
    /\ uploads' = uploads \ {analysis_queue[session_id].inputs[i].id :
                                i \in {k \in 1..Len(analysis_queue[session_id].inputs) :
                                          analysis_queue[session_id].inputs[k].is_file}}
    /\ analysis_queue' = [analysis_queue EXCEPT ![session_id] = NoSession]
    /\ UNCHANGED <<workflows, frames, ids_issued>>

start_analysis(session_id, workflow_id) ==
    /\ analysis_queue[session_id].present
    /\ analysis_queue[session_id].inputs # <<>>
    /\ ~workflows[workflow_id].present
    /\ LET inputs == analysis_queue[session_id].inputs IN
       workflows' = [workflows EXCEPT ![workflow_id] =
                        AgentWorkflow(inputs, _plan_tasks(inputs), TRUE)]
    /\ analysis_queue' = [analysis_queue EXCEPT ![session_id].status = "analyzing",
                                                ![session_id].workflow_id = workflow_id]
    /\ frames' = [frames EXCEPT ![workflow_id] =
                    [pc |-> "queued", idx |-> 0, completed_tasks |-> 0, total_tasks |-> 0,
                     content |-> {}]]
    /\ UNCHANGED <<ids_issued, uploads>>

\* AIAgentService.start_workflow up to its await: the workflow is built and
\* planned from the caller's list (which may be empty) and is not stored
start_workflow(inputs, workflow_id) ==
    /\ ~workflows[workflow_id].present
    /\ workflows' = [workflows EXCEPT ![workflow_id] =
                        AgentWorkflow(inputs, _plan_tasks(inputs), FALSE)]
    /\ frames' = [frames EXCEPT ![workflow_id] =
                    [pc |-> "queued", idx |-> 0, completed_tasks |-> 0, total_tasks |-> 0,
                     content |-> {}]]
    /\ UNCHANGED <<analysis_queue, ids_issued, uploads>>

\* progress after the k-th task of n was processed
ProgressOf(completed_tasks, total_tasks) == Fraction(completed_tasks * 100, total_tasks)

\* _execute_workflow is entered: the counters are set
BeginExecute(w) ==
    /\ frames[w].pc = "queued"
    /\ frames' = [frames EXCEPT ![w] =
                    [pc |-> "loop", idx |-> 1, completed_tasks |-> 0,
                     total_tasks |-> Len(workflows[w].tasks), content |-> {}]]
    /\ UNCHANGED <<analysis_queue, workflows, ids_issued, uploads>>

\* Fault variant of _get_content: a file that cannot be opened raises.
GetContentRaises(input_data, files) ==
    IF input_data.is_file
    THEN IF input_data.id \in files THEN "file content" ELSE "raise"
    ELSE "content"

\* the content of an input: the text itself, or what the file at its path
\* holds; a file that cannot be read gives an inline error string
_get_content(input_data, files) ==
    IF input_data.is_file
    THEN IF input_data.id \in files THEN "file content" ELSE "[Error reading file]"
    ELSE "content"

\* what the handler of a task reads before it calls the generative service:
\* its own input (error extraction, code analysis), every input (documentation
\* search), nothing (multimodal analysis, fix generation)
Reads(task, files) ==
    IF task.type \in {"error_extraction", "code_analysis", "documentation_search"}
    THEN {_get_content(task.input.items[k], files) : k \in 1..Len(task.input.items)}
    ELSE {}

\* Fault variant of TaskStart: the task is handed to its handler without being
\* marked running.
TaskStartSkipsRunning(w) ==
    /\ frames[w].pc = "loop"
    /\ frames[w].idx <= frames[w].total_tasks
    /\ frames' = [frames EXCEPT
                    ![w].pc = "handler",
                    ![w].content = Reads(workflows[w].tasks[frames[w].idx], uploads)]
    /\ UNCHANGED <<analysis_queue, workflows, ids_issued, uploads>>

\* the loop takes the next task, marks it running and dispatches it to its
\* handler, which reads its content into a local before it calls the
\* generative service; an exception of the read goes through running to the
\* except branch of the loop in the same uninterrupted run of the code
TaskStart(w) ==
    /\ frames[w].pc = "loop"
    /\ frames[w].idx <= frames[w].total_tasks
    /\ IF "raise" \in Reads(workflows[w].tasks[frames[w].idx], uploads)
       THEN /\ workflows' = [workflows EXCEPT
                        ![w].tasks[frames[w].idx].status = "failed",
                        ![w].tasks[frames[w].idx].error = "boom",
                        ![w].progress = Fraction((frames[w].completed_tasks + 1) * 100,
                                                 frames[w].total_tasks)]
            /\ frames' = [frames EXCEPT ![w].idx = @ + 1, ![w].completed_tasks = @ + 1]
       ELSE /\ workflows' = [workflows EXCEPT ![w].tasks[frames[w].idx].status = "running"]
            /\ frames' = [frames EXCEPT
                            ![w].pc = "handler",
                            ![w].content =
                                Reads(workflows[w].tasks[frames[w].idx], uploads)]
    /\ UNCHANGED <<analysis_queue, ids_issued, uploads>>

\* Fault variant of HandlerReturn: the result is stored but the task is left
\* running.
HandlerReturnLeavesRunning(w, result) ==
    /\ frames[w].pc = "handler"
    /\ result \in OutcomesOf(workflows[w].tasks[frames[w].idx].type)
    /\ workflows' = [workflows EXCEPT
                        ![w].tasks[frames[w].idx].result = result,
                        ![w].progress = Fraction((frames[w].completed_tasks + 1) * 100,
                                                 frames[w].total_tasks)]
    /\ frames' = [frames EXCEPT ![w].pc = "loop", ![w].idx = @ + 1,
                                ![w].completed_tasks = @ + 1]
    /\ UNCHANGED <<analysis_queue, ids_issued, uploads>>

\* Fault variant of HandlerReturn: the result is written to every task handled
\* so far, not to the current one alone.
HandlerReturnOverwrites(w, result) ==
    /\ frames[w].pc = "handler"
    /\ result \in OutcomesOf(workflows[w].tasks[frames[w].idx].type)
    /\ workflows' = [workflows EXCEPT
                        ![w].tasks = [i \in 1..Len(@) |->
                            IF i < frames[w].idx THEN [@[i] EXCEPT !.result = result]
                            ELSE IF i = frames[w].idx
                            THEN [@[i] EXCEPT !.result = result, !.status = "completed"]
                            ELSE @[i]],
                        ![w].progress = Fraction((frames[w].completed_tasks + 1) * 100,
                                                 frames[w].total_tasks)]
    /\ frames' = [frames EXCEPT ![w].pc = "loop", ![w].idx = @ + 1,
                                ![w].completed_tasks = @ + 1]
    /\ UNCHANGED <<analysis_queue, ids_issued, uploads>>

\* Fault variant of HandlerReturn: the executor looks into the result and
\* treats an error-shaped value like an exception of the handler.
HandlerReturnFailsOnError(w, result) ==
    /\ frames[w].pc = "handler"
    /\ result \in OutcomesOf(workflows[w].tasks[frames[w].idx].type)
    /\ workflows' = [workflows EXCEPT
                        ![w].tasks[frames[w].idx] =
                            IF result = ErrorShaped
                            THEN [@ EXCEPT !.status = "failed", !.result = result,
                                           !.error = "boom"]
                            ELSE [@ EXCEPT !.status = "completed", !.result = result],
                        ![w].progress = Fraction((frames[w].completed_tasks + 1) * 100,
                                                 frames[w].total_tasks)]
    /\ frames' = [frames EXCEPT ![w].pc = "loop", ![w].idx = @ + 1,
                                ![w].completed_tasks = @ + 1]
    /\ UNCHANGED <<analysis_queue, ids_issued, uploads>>

\* Fault variant of HandlerReturn: progress is kept in one place shared by all
\* workflows.
HandlerReturnSharedProgress(w, result) ==
    /\ frames[w].pc = "handler"
    /\ result \in OutcomesOf(workflows[w].tasks[frames[w].idx].type)
    /\ workflows' = [x \in DOMAIN workflows |->
            IF x = w
            THEN [workflows[x] EXCEPT
                    !.tasks[frames[w].idx].result = result,
                    !.tasks[frames[w].idx].status = "completed",
                    !.progress = Fraction((frames[w].completed_tasks + 1) * 100,
                                          frames[w].total_tasks)]
            ELSE [workflows[x] EXCEPT
                    !.progress = Fraction((frames[w].completed_tasks + 1) * 100,
                                          frames[w].total_tasks)]]
    /\ frames' = [frames EXCEPT ![w].pc = "loop", ![w].idx = @ + 1,
                                ![w].completed_tasks = @ + 1]
    /\ UNCHANGED <<analysis_queue, ids_issued, uploads>>

\* the handler returned: lines 175-177
HandlerReturn(w, result) ==
    /\ frames[w].pc = "handler"
    /\ result \in OutcomesOf(workflows[w].tasks[frames[w].idx].type)
    /\ workflows' = [workflows EXCEPT
                        ![w].tasks[frames[w].idx].result = result,
                        ![w].tasks[frames[w].idx].status = "completed",
                        ![w].progress = ProgressOf(frames[w].completed_tasks + 1,
                                                   frames[w].total_tasks)]
    /\ frames' = [frames EXCEPT ![w].pc = "loop", ![w].idx = @ + 1,
                                ![w].completed_tasks = @ + 1]
    /\ UNCHANGED <<analysis_queue, ids_issued, uploads>>

\* Fault variant of HandlerRaise: the exception is not caught per task but
\* around the loop, so it ends the execution.
HandlerRaiseAborts(w, message) ==
    /\ frames[w].pc = "handler"
    /\ Awaits(workflows[w].tasks[frames[w].idx].type)
    /\ workflows' = [workflows EXCEPT
                        ![w].tasks[frames[w].idx].status = "failed",
                        ![w].tasks[frames[w].idx].error = message,
                        ![w].status = "failed",
                        ![w].progress = Fraction(100, 1)]
    /\ frames' = [frames EXCEPT ![w].pc = "done"]
    /\ UNCHANGED <<analysis_queue, ids_issued, uploads>>

\* Fault variant of HandlerRaise: the except branch records the failure without
\* touching the counter or the progress.
HandlerRaiseSkipsProgress(w, message) ==
    /\ frames[w].pc = "handler"
    /\ Awaits(workflows[w].tasks[frames[w].idx].type)
    /\ workflows' = [workflows EXCEPT
                        ![w].tasks[frames[w].idx].status = "failed",
                        ![w].tasks[frames[w].idx].error = message]
    /\ frames' = [frames EXCEPT ![w].pc = "loop", ![w].idx = @ + 1]
    /\ UNCHANGED <<analysis_queue, ids_issued, uploads>>

\* Fault variant of HandlerRaise: a failed task is tried again.
HandlerRaiseRetries(w, message) ==
    /\ frames[w].pc = "handler"
    /\ Awaits(workflows[w].tasks[frames[w].idx].type)
    /\ workflows' = [workflows EXCEPT
                        ![w].tasks[frames[w].idx].status = "failed",
                        ![w].tasks[frames[w].idx].error = message]
    /\ frames' = [frames EXCEPT ![w].pc = "loop"]
    /\ UNCHANGED <<analysis_queue, ids_issued, uploads>>

\* Fault variant of HandlerRaise: the except branch stores the exception as the
\* task's result too.
HandlerRaiseStoresResult(w, message) ==
    /\ frames[w].pc = "handler"
    /\ Awaits(workflows[w].tasks[frames[w].idx].type)
    /\ workflows' = [workflows EXCEPT
                        ![w].tasks[frames[w].idx].status = "failed",
                        ![w].tasks[frames[w].idx].error = message,
                        ![w].tasks[frames[w].idx].result = ErrorShaped,
                        ![w].progress = Fraction((frames[w].completed_tasks + 1) * 100,
                                                 frames[w].total_tasks)]
    /\ frames' = [frames EXCEPT ![w].pc = "loop", ![w].idx = @ + 1,
                                ![w].completed_tasks = @ + 1]
    /\ UNCHANGED <<analysis_queue, ids_issued, uploads>>

\* Fault variant of HandlerRaise: a task's exception also marks the workflow
\* failed, and the loop goes on.
HandlerRaiseMarksWorkflowFailed(w, message) ==
    /\ frames[w].pc = "handler"
    /\ Awaits(workflows[w].tasks[frames[w].idx].type)
    /\ workflows' = [workflows EXCEPT
                        ![w].tasks[frames[w].idx].status = "failed",
                        ![w].tasks[frames[w].idx].error = message,
                        ![w].status = "failed",
                        ![w].progress = Fraction((frames[w].completed_tasks + 1) * 100,
                                                 frames[w].total_tasks)]
    /\ frames' = [frames EXCEPT ![w].pc = "loop", ![w].idx = @ + 1,
                                ![w].completed_tasks = @ + 1]
    /\ UNCHANGED <<analysis_queue, ids_issued, uploads>>

\* the handler raised: lines 179-184
HandlerRaise(w, message) ==
    /\ frames[w].pc = "handler"
    /\ Awaits(workflows[w].tasks[frames[w].idx].type)
    /\ workflows' = [workflows EXCEPT
                        ![w].tasks[frames[w].idx].status = "failed",
                        ![w].tasks[frames[w].idx].error = message,
                        ![w].progress = ProgressOf(frames[w].completed_tasks + 1,
                                                   frames[w].total_tasks)]
    /\ frames' = [frames EXCEPT ![w].pc = "loop", ![w].idx = @ + 1,
                                ![w].completed_tasks = @ + 1]
    /\ UNCHANGED <<analysis_queue, ids_issued, uploads>>

\* Fault variant of FinishExecute: the caller's except branch resets progress.
FinishExecuteResetsProgress(w) ==
    /\ frames[w].pc = "loop"
    /\ frames[w].idx > frames[w].total_tasks
    /\ LET compiled == _compile_suggestions(workflows[w]) IN
       workflows' = [workflows EXCEPT ![w] =
            IF compiled.raised
            THEN [@ EXCEPT !.status = "failed", !.progress = Fraction(0, 1)]
            ELSE [@ EXCEPT !.suggestions = compiled.suggestions, !.status = "completed"]]
    /\ frames' = [frames EXCEPT ![w].pc = "done"]
    /\ UNCHANGED <<analysis_queue, ids_issued, uploads>>

\* Fault variant of FinishExecute: a workflow none of whose tasks completed is
\* marked failed.
FinishExecuteFailsWhenAllFailed(w) ==
    /\ frames[w].pc = "loop"
    /\ frames[w].idx > frames[w].total_tasks
    /\ LET compiled == _compile_suggestions(workflows[w]) IN
       workflows' = [workflows EXCEPT ![w] =
            IF compiled.raised
            THEN [@ EXCEPT !.status = "failed", !.progress = Fraction(100, 1)]
            ELSE IF \A i \in 1..Len(@.tasks) : @.tasks[i].status = "failed"
            THEN [@ EXCEPT !.suggestions = compiled.suggestions, !.status = "failed"]
            ELSE [@ EXCEPT !.suggestions = compiled.suggestions, !.status = "completed"]]
    /\ frames' = [frames EXCEPT ![w].pc = "done"]
    /\ UNCHANGED <<analysis_queue, ids_issued, uploads>>

\* Fault variant of FinishExecute: the caller's except branch is missing, the
\* exception of the compiler is swallowed and the workflow is marked completed.
FinishExecuteSwallowsRaise(w) ==
    /\ frames[w].pc = "loop"
    /\ frames[w].idx > frames[w].total_tasks
    /\ LET compiled == _compile_suggestions(workflows[w]) IN
       workflows' = [workflows EXCEPT ![w] =
            [@ EXCEPT !.suggestions = compiled.suggestions, !.status = "completed"]]
    /\ frames' = [frames EXCEPT ![w].pc = "done"]
    /\ UNCHANGED <<analysis_queue, ids_issued, uploads>>

\* Fault variant of FinishExecute: the suggestions are stored and the status
\* update is left out.
FinishExecuteStoresOnly(w) ==
    /\ frames[w].pc = "loop"
    /\ frames[w].idx > frames[w].total_tasks
    /\ LET compiled == _compile_suggestions(workflows[w]) IN
       workflows' = [workflows EXCEPT ![w] =
            IF compiled.raised
            THEN [@ EXCEPT !.status = "failed", !.progress = Fraction(100, 1)]
            ELSE [@ EXCEPT !.suggestions = compiled.suggestions]]
    /\ frames' = [frames EXCEPT ![w].pc = "done"]
    /\ UNCHANGED <<analysis_queue, ids_issued, uploads>>

\* after the loop: compile, then completed; an exception of the compiler
\* reaches the caller (run_analysis_workflow, start_workflow), which marks
\* the workflow failed at progress 100
FinishExecute(w) ==
    /\ frames[w].pc = "loop"
    /\ frames[w].idx > frames[w].total_tasks
    /\ LET compiled == _compile_suggestions(workflows[w]) IN
       workflows' = [workflows EXCEPT ![w] =
            IF compiled.raised
            THEN [@ EXCEPT !.status = "failed", !.progress = Fraction(100, 1)]
            ELSE [@ EXCEPT !.suggestions = compiled.suggestions, !.status = "completed"]]
    /\ frames' = [frames EXCEPT ![w].pc = "done"]
    /\ UNCHANGED <<analysis_queue, ids_issued, uploads>>

Execute(w) ==
    \/ BeginExecute(w)
    \/ TaskStart(w)
    \/ \E result \in AllOutcomes : HandlerReturn(w, result)
    \/ \E message \in ExceptionMessages : HandlerRaise(w, message)
    \/ FinishExecute(w)

InputLists == UNION {[1..n -> InputType] : n \in 0..MaxInputs}
Numbered(types) == [i \in 1..Len(types) |-> DebugInput(i, types[i])]

\* the service behind its HTTP interface
Next ==
    \/ \E s \in SessionIds, type \in InputType : add_debug_input(s, type)
    \/ \E s \in SessionIds, w \in WorkflowIds : start_analysis(s, w)
    \/ \E w \in WorkflowIds : Execute(w)

Spec == Init /\ [][Next]_vars

\* AIAgentService.start_workflow called directly
NextService ==
    \/ \E types \in InputLists, w \in WorkflowIds : start_workflow(Numbered(types), w)
    \/ \E w \in WorkflowIds : Execute(w)

SpecService == Init /\ [][NextService]_vars

\* The executor explored with few replies per handler: a failed call, and a
\* code analysis on which the compiler raises.
FewOutcomes ==
    {ErrorShaped, CodeResult(<<>>, ErrorShaped),
     CodeResult(<<>>, Raw(NullDescriptionText)), MultimodalResult}

ExecuteFew(w) ==
    \/ BeginExecute(w)
    \/ TaskStart(w)
    \/ \E result \in FewOutcomes : HandlerReturn(w, result)
    \/ \E message \in ExceptionMessages : HandlerRaise(w, message)
    \/ FinishExecute(w)

\* Two sessions and two workflows at a time, of inputs of two kinds.
PairInputTypes == {"logs", "code"}
PairSessionIds == {"default", "other"}
PairWorkflowIds == {"wf1", "wf2"}

InitPair ==
    /\ analysis_queue = [s \in PairSessionIds |-> NoSession]
    /\ workflows = [w \in PairWorkflowIds |-> NoWorkflow]
    /\ frames = [w \in PairWorkflowIds |-> NoFrame]
    /\ ids_issued = 0
    /\ uploads = {}

NextPair ==
    \/ \E s \in PairSessionIds, type \in PairInputTypes : add_debug_input(s, type)
    \/ \E s \in PairSessionIds, w \in PairWorkflowIds : start_analysis(s, w)
    \/ \E w \in PairWorkflowIds : ExecuteFew(w)

SpecPair == InitPair /\ [][NextPair]_vars

\* The service with its session operations: text inputs, uploads, clearing.
NextSession ==
    \/ \E s \in SessionIds, type \in InputType : add_debug_input(s, type)
    \/ \E s \in SessionIds, type \in InputType : upload_file(s, type)
    \/ \E s \in SessionIds, w \in WorkflowIds : start_analysis(s, w)
    \/ \E s \in SessionIds : clear_session(s)
    \/ \E w \in WorkflowIds : ExecuteFew(w)

SpecSession == Init /\ [][NextSession]_vars

\* The background task is run by the event loop and every awaited call returns.
SpecSessionLive == SpecSession /\ \A w \in WorkflowIds : WF_vars(ExecuteFew(w))

\* _execute_workflow called once more on a workflow it has already executed
\* (the function takes any workflow; nothing in it tells a first call from a
\* later one)
ExecuteAgain(w) ==
    /\ frames[w].pc = "done"
    /\ frames' = [frames EXCEPT ![w].pc = "queued"]
    /\ UNCHANGED <<analysis_queue, workflows, ids_issued, uploads>>

NextAgain ==
    \/ \E types \in InputLists, w \in WorkflowIds : start_workflow(Numbered(types), w)
    \/ \E w \in WorkflowIds : ExecuteFew(w)
    \/ \E w \in WorkflowIds : ExecuteAgain(w)

SpecAgain == Init /\ [][NextAgain]_vars

\* ------------------------------------------------------------- polling
Processed(task) == task.status \in {"completed", "failed"}

\* GET /debug/workflow/{workflow_id}: what a poll of a stored workflow returns
get_workflow_status(workflow_id) ==
    LET workflow == workflows[workflow_id] IN
    [status |-> workflow.status,
     progress |-> workflow.progress,
     tasks |-> [i \in 1..Len(workflow.tasks) |->
                  [id |-> workflow.tasks[i].id, agent_id |-> workflow.tasks[i].agentId,
                   type |-> workflow.tasks[i].type, status |-> workflow.tasks[i].status,
                   error |-> IF workflow.tasks[i].status = "failed"
                             THEN workflow.tasks[i].error ELSE NoError]],
     suggestions_count |-> Len(workflow.suggestions),
     completed_tasks |-> Cardinality({i \in 1..Len(workflow.tasks) :
                                        workflow.tasks[i].status = "completed"}),
     total_tasks |-> Len(workflow.tasks)]

\* GET /debug/suggestions/{workflow_id} of a stored workflow
get_suggestions(workflow_id) ==
    LET workflow == workflows[workflow_id] IN
    IF workflow.status # "completed"
    THEN [status |-> workflow.status, suggestions |-> <<>>,
          message |-> IF workflow.status = "analyzing"
                      THEN "Analysis still in progress" ELSE "Analysis failed"]
    ELSE [status |-> workflow.status, suggestions |-> workflow.suggestions,
          message |-> "None"]

\* The event loop serves a request only while the executor is suspended: before
\* the background task runs, inside an awaiting handler, or after it ended.
Observable(w) ==
    /\ workflows[w].stored
    /\ \/ frames[w].pc \in {"queued", "done"}
       \/ /\ frames[w].pc = "handler"
          /\ Awaits(workflows[w].tasks[frames[w].idx].type)

\* ------------------------------------------------------------------ claims
Fallback(ids) ==
    FixSuggestion(<<"AI Analysis Unavailable">>, 30, "configuration", ids, <<"System">>)

\* C1: in every reachable state in which a workflow's status is completed, its
\* suggestion list has at least one element.
C1_CompletedHasSuggestion ==
    \A w \in WorkflowIds :
        workflows[w].status = "completed" => Len(workflows[w].suggestions) >= 1

\* C2: when every task of a workflow has ended failed, the compiler returns
\* exactly one suggestion: "AI Analysis Unavailable", configuration, confidence 30.
C2_AllFailedYieldsFallback ==
    \A w \in WorkflowIds :
        (/\ workflows[w].present
         /\ \A i \in 1..Len(workflows[w].tasks) : workflows[w].tasks[i].status = "failed")
        => LET compiled == _compile_suggestions(workflows[w]) IN
           /\ ~compiled.raised
           /\ Len(compiled.suggestions) = 1
           /\ compiled.suggestions[1].title = <<"AI Analysis Unavailable">>
           /\ compiled.suggestions[1].type = "configuration"
           /\ compiled.suggestions[1].confidence = 30

\* C3 as stated: once a handler has raised, the workflow still ends completed.
C3_RaiseStillCompletes ==
    \A w \in WorkflowIds :
        (/\ frames[w].pc = "done"
         /\ \E i \in 1..Len(workflows[w].tasks) : workflows[w].tasks[i].status = "failed")
        => workflows[w].status = "completed"

\* C3 (amended): the step in which a handler raises leaves the task failed with
\* the exception message as its error, advances progress by 1/N, and returns to
\* the loop at the next task; the executor ends only after every task was
\* processed, completed when the compiler returned and failed when it raised.
C3_RaiseIsContained ==
    [][\A w \in WorkflowIds :
        /\ \A i \in 1..Len(workflows[w].tasks) :
             (/\ workflows[w].tasks[i].status = "running"
              /\ workflows'[w].tasks[i].status = "failed")
             => /\ workflows'[w].tasks[i].error \in ExceptionMessages
                /\ workflows'[w].tasks[i].result = NoResult
                /\ Same(workflows'[w].progress,
                        Fraction(workflows[w].progress.num * Len(workflows[w].tasks)
                                   + 100 * workflows[w].progress.den,
                                 workflows[w].progress.den * Len(workflows[w].tasks)))
                /\ workflows'[w].status = "analyzing"
                /\ frames'[w].pc = "loop"
                /\ frames'[w].idx = i + 1
        /\ (frames[w].pc # "done" /\ frames'[w].pc = "done")
             => /\ \A i \in 1..Len(workflows[w].tasks) : Processed(workflows[w].tasks[i])
                /\ workflows'[w].tasks = workflows[w].tasks
                /\ workflows'[w].status =
                     IF _compile_suggestions(workflows[w]).raised
                     THEN "failed" ELSE "completed"
      ]_vars

\* a handler raised, a later task completed, and the workflow ended completed
C3_Witness ==
    \E w \in WorkflowIds :
        /\ workflows[w].status = "completed"
        /\ \E i, j \in 1..Len(workflows[w].tasks) :
              /\ i < j
              /\ workflows[w].tasks[i].status = "failed"
              /\ workflows[w].tasks[i].error \in ExceptionMessages
              /\ workflows[w].tasks[j].status = "completed"

\* C4: whatever a status poll can observe, progress is
\* 100 * (tasks completed or failed) / (number of tasks).
C4_PollProgressMatchesTasks ==
    \A w \in WorkflowIds :
        Observable(w) =>
            LET response == get_workflow_status(w)
                processed == Cardinality({i \in 1..Len(response.tasks) :
                                response.tasks[i].status \in {"completed", "failed"}})
            IN  response.progress.num * response.total_tasks
                  = 100 * processed * response.progress.den

\* a poll while a later handler awaits, after one task failed and one completed
C4_Witness ==
    \E w \in WorkflowIds :
        /\ Observable(w)
        /\ frames[w].pc = "handler"
        /\ \E i, j \in 1..Len(workflows[w].tasks) :
              /\ workflows[w].tasks[i].status = "failed"
              /\ workflows[w].tasks[j].status = "completed"
        /\ get_workflow_status(w).progress.num > 0

\* C5: progress starts at 0, stays within [0,100] and never decreases from one
\* state of an execution to the next.
C5_ProgressMonotone ==
    [][\A w \in WorkflowIds :
        /\ Leq(workflows[w].progress, workflows'[w].progress)
        /\ Leq(Fraction(0, 1), workflows'[w].progress)
        /\ Leq(workflows'[w].progress, Fraction(100, 1))
        /\ (~workflows[w].present /\ workflows'[w].present)
             => workflows'[w].progress.num = 0
      ]_vars

\* an execution halfway: some progress made, some still to come
C5_Witness ==
    \E w \in WorkflowIds :
        /\ Observable(w)
        /\ workflows[w].status = "analyzing"
        /\ workflows[w].progress.num > 0
        /\ ~Leq(Fraction(100, 1), workflows[w].progress)

\* The background task is run by the event loop and every awaited call returns.
NextLive ==
    \/ \E s \in SessionIds, type \in InputType : add_debug_input(s, type)
    \/ \E s \in SessionIds, w \in WorkflowIds : start_analysis(s, w)
    \/ \E w \in WorkflowIds : ExecuteFew(w)

SpecLive == Init /\ [][NextLive]_vars /\ \A w \in WorkflowIds : WF_vars(ExecuteFew(w))

\* C6: every workflow started through start_analysis eventually reaches a
\* terminal status, completed or failed.
C6_EventuallyTerminal ==
    \A w \in WorkflowIds :
        [](workflows[w].stored => <>(workflows[w].status \in {"completed", "failed"}))

\* a stored workflow whose execution ended
C6_Witness ==
    \E w \in WorkflowIds :
        /\ workflows[w].stored
        /\ frames[w].pc = "done"
        /\ workflows[w].status \in {"completed", "failed"}
        /\ \E i \in 1..Len(workflows[w].tasks) : workflows[w].tasks[i].status = "failed"

PerInputTypes == {"error_extraction", "code_analysis", "multimodal_analysis"}
Positions(tasks, types) == {i \in 1..Len(tasks) : tasks[i].type \in types}

\* C7: for n >= 1 inputs the plan has n + 2 tasks: n per-input tasks, one
\* documentation_search, one fix_generation; for no input it is the
\* fix_generation task alone.
C7_PlanLength ==
    \A w \in WorkflowIds :
        workflows[w].present =>
            LET n == Len(workflows[w].inputs)
                tasks == workflows[w].tasks
            IN  IF n >= 1
                THEN /\ Len(tasks) = n + 2
                     /\ Cardinality(Positions(tasks, PerInputTypes)) = n
                     /\ Cardinality(Positions(tasks, {"documentation_search"})) = 1
                     /\ Cardinality(Positions(tasks, {"fix_generation"})) = 1
                ELSE /\ Len(tasks) = 1
                     /\ tasks[1].type = "fix_generation"
                     /\ Positions(tasks, {"documentation_search"}) = {}

\* a plan for the longest input list
C7_Witness ==
    \E w \in WorkflowIds :
        /\ workflows[w].present
        /\ Len(workflows[w].inputs) = MaxInputs
        /\ Len(workflows[w].tasks) = MaxInputs + 2

\* C8: the plan holds exactly one fix_generation task, as its last element; a
\* documentation_search task stands right before it, after every per-input task.
C8_FixGenerationLast ==
    \A w \in WorkflowIds :
        workflows[w].present =>
            LET tasks == workflows[w].tasks IN
            /\ Positions(tasks, {"fix_generation"}) = {Len(tasks)}
            /\ \A d \in Positions(tasks, {"documentation_search"}) :
                  /\ d = Len(tasks) - 1
                  /\ \A i \in Positions(tasks, PerInputTypes) : i < d

\* a plan with per-input tasks, the documentation search and the fix generation
C8_Witness ==
    \E w \in WorkflowIds :
        /\ workflows[w].present
        /\ Len(workflows[w].tasks) >= 3
        /\ workflows[w].tasks[Len(workflows[w].tasks) - 1].type = "documentation_search"
        /\ workflows[w].tasks[Len(workflows[w].tasks)].type = "fix_generation"

\* the routing rule of the claim
RoutedTo(type) ==
    CASE type \in {"logs", "error_trace"} -> <<"error-extractor", "error_extraction">>
      [] type = "code" -> <<"code-analyzer", "code_analysis">>
      [] type \in {"screenshot", "diagram"} -> <<"multimodal-analyzer", "multimodal_analysis">>

\* C9: the i-th task of the plan carries the i-th input, is pending, and has
\* the agent and type its kind is routed to; the documentation_search and
\* fix_generation tasks carry the whole input list.
C9_PlanRouting ==
    \A w \in WorkflowIds :
        workflows[w].present =>
            LET inputs == workflows[w].inputs
                tasks == workflows[w].tasks
            IN  /\ Len(tasks) >= Len(inputs)
                /\ \A i \in 1..Len(inputs) :
                      /\ tasks[i].input = [whole |-> FALSE, items |-> <<inputs[i]>>]
                      /\ <<tasks[i].agentId, tasks[i].type>> = RoutedTo(inputs[i].type)
                /\ \A i \in (Len(inputs) + 1)..Len(tasks) :
                      /\ tasks[i].type \in {"documentation_search", "fix_generation"}
                      /\ tasks[i].input = [whole |-> TRUE, items |-> inputs]
                /\ frames[w].pc = "queued"
                      => \A i \in 1..Len(tasks) : tasks[i].status = "pending"

\* a fresh plan for two inputs of different kinds
C9_Witness ==
    \E w \in WorkflowIds :
        /\ frames[w].pc = "queued"
        /\ Len(workflows[w].inputs) >= 2
        /\ workflows[w].inputs[1].type = "diagram"
        /\ workflows[w].inputs[2].type = "error_trace"
        /\ workflows[w].tasks[1].type = "multimodal_analysis"
        /\ workflows[w].tasks[2].type = "error_extraction"

\* C10: tasks are processed in planned order, one at a time: every task before
\* a started task is completed or failed, so at most one task is running and
\* every task after it is pending; while the fix_generation handler runs, every
\* other task is completed or failed.
C10_SequentialOrder ==
    \A w \in WorkflowIds :
        LET tasks == workflows[w].tasks IN
        /\ \A i, j \in 1..Len(tasks) :
              (i < j /\ tasks[j].status # "pending") => Processed(tasks[i])
        /\ \A i, j \in 1..Len(tasks) :
              (i < j /\ tasks[i].status = "running") => tasks[j].status = "pending"
        /\ Cardinality({i \in 1..Len(tasks) : tasks[i].status = "running"}) <= 1
        /\ \A f \in 1..Len(tasks) :
              (tasks[f].type = "fix_generation" /\ tasks[f].status = "running")
              => \A i \in 1..Len(tasks) : i # f => Processed(tasks[i])

\* the fix_generation handler is running after a failed and a completed task
C10_Witness ==
    \E w \in WorkflowIds :
        LET tasks == workflows[w].tasks IN
        /\ Len(tasks) >= 3
        /\ tasks[Len(tasks)].type = "fix_generation"
        /\ tasks[Len(tasks)].status = "running"
        /\ tasks[1].status = "failed"
        /\ tasks[2].status = "completed"

\* C11: within one execution a task's handler is started once, on a pending
\* task, and a task never becomes pending again nor leaves completed or failed;
\* a result stored by a handler is never changed by a later step (a later
\* handler, the compiler, the terminal status update); when the execution
\* ends every task has been handled.
C11_ResultWrittenOnce ==
    [][\A w \in WorkflowIds :
        /\ \A i \in 1..Len(workflows[w].tasks) :
             LET task == workflows[w].tasks[i]
                 after == workflows'[w].tasks[i]
             IN  /\ task.result # NoResult => after.result = task.result
                 /\ (task.status # "running" /\ after.status = "running")
                      => task.status = "pending"
                 /\ task.status # "pending" => after.status # "pending"
                 /\ Processed(task) => after.status = task.status
                 /\ after.result # task.result
                      => /\ task.status = "running"
                         /\ after.status = "completed"
        /\ frames'[w].pc = "done"
             => \A i \in 1..Len(workflows'[w].tasks) : Processed(workflows'[w].tasks[i])
      ]_vars

\* the execution ended after two handlers had stored a result and suggestions
\* were compiled
C11_Witness ==
    \E w \in WorkflowIds :
        /\ frames[w].pc = "done"
        /\ workflows[w].status = "completed"
        /\ workflows[w].suggestions # <<>>
        /\ \E i, j \in 1..Len(workflows[w].tasks) :
              /\ i < j
              /\ workflows[w].tasks[i].result \notin {NoResult, Falsy}
              /\ workflows[w].tasks[j].result \notin {NoResult, Falsy}
              /\ workflows[w].tasks[i].result # workflows[w].tasks[j].result

\* the generative-service call of this task failed: the adapter's error-shaped
\* value is the handler's result, or its generative portion for code analysis
ServiceFailed(result) ==
    \/ result = ErrorShaped
    \/ (result.tag = "code" /\ result.ai_analysis = ErrorShaped)

C13_CompletedUnconditionally ==
    \A w \in WorkflowIds :
        /\ (frames[w].pc = "done" /\ ~_compile_suggestions(workflows[w]).raised)
             => workflows[w].status = "completed"
        /\ workflows[w].status = "completed"
             => /\ \A i \in 1..Len(workflows[w].tasks) : Processed(workflows[w].tasks[i])
                /\ Same(workflows[w].progress, Fraction(100, 1))

\* a completed workflow all of whose tasks failed
C13_Witness ==
    \E w \in WorkflowIds :
        /\ workflows[w].status = "completed"
        /\ Len(workflows[w].tasks) >= 3
        /\ \A i \in 1..Len(workflows[w].tasks) : workflows[w].tasks[i].status = "failed"

\* C14: when the compiler raises, the caller marks the workflow failed with
\* progress 100; a failed workflow has no suggestion, all its tasks are
\* completed or failed, and it stays failed.
C14_CompilerRaiseMarksFailed ==
    [][\A w \in WorkflowIds :
        /\ (frames[w].pc = "loop" /\ frames'[w].pc = "done"
                /\ _compile_suggestions(workflows[w]).raised)
             => workflows'[w].status = "failed"
        /\ workflows'[w].status = "failed"
             => /\ Same(workflows'[w].progress, Fraction(100, 1))
                /\ workflows'[w].suggestions = <<>>
                /\ \A i \in 1..Len(workflows'[w].tasks) : Processed(workflows'[w].tasks[i])
                /\ frames'[w].pc = "done"
        /\ workflows[w].status = "failed" => workflows'[w].status = "failed"
        /\ workflows[w].status = "completed" => workflows'[w].status = "completed"
      ]_vars

\* the compiler raised on the result of a completed code analysis
C14_Witness ==
    \E w \in WorkflowIds :
        /\ workflows[w].status = "failed"
        /\ _compile_suggestions(workflows[w]).raised
        /\ \E i \in 1..Len(workflows[w].tasks) :
              /\ workflows[w].tasks[i].type = "code_analysis"
              /\ workflows[w].tasks[i].status = "completed"

\* C15: a suggestion retrieval served at any point of the background execution
\* returns an empty list while the status is analyzing or failed and the stored
\* list once it is completed; the stored list is empty in every state whose
\* status is not completed.
C15_SuggestionsOnlyWhenCompleted ==
    \A w \in WorkflowIds :
        /\ Observable(w)
             => LET response == get_suggestions(w) IN
                /\ response.status \in {"analyzing", "failed"}
                     => response.suggestions = <<>>
                /\ response.suggestions # <<>> => response.status = "completed"
                /\ response.status = "completed"
                     => response.suggestions = workflows[w].suggestions
        /\ workflows[w].status # "completed" => workflows[w].suggestions = <<>>

\* a retrieval while the last handler awaits, after earlier tasks stored results
C15_Witness ==
    \E w \in WorkflowIds :
        /\ Observable(w)
        /\ frames[w].pc = "handler"
        /\ workflows[w].tasks[frames[w].idx].type = "fix_generation"
        /\ Truthy(workflows[w].tasks[1].result)
        /\ get_suggestions(w).message = "Analysis still in progress"

\* a retrieval after completion returns the compiled suggestions
C15_CompletedRetrieval ==
    \E w \in WorkflowIds :
        /\ Observable(w)
        /\ get_suggestions(w).status = "completed"
        /\ Len(get_suggestions(w).suggestions) >= 2

\* C16: every suggestion the compiler emits, at every stage (error fact, code
\* issue, raw-text synthesis, fallback), has relatedInputs equal to the list of
\* the workflow's input ids in input order, so it names no id outside that list.
C16_RelatedInputsAreAllInputs ==
    \A w \in WorkflowIds :
        workflows[w].present =>
            LET inputs == workflows[w].inputs
                emitted == _compile_suggestions(workflows[w]).suggestions
                AllIds(related) ==
                    /\ Len(related) = Len(inputs)
                    /\ \A k \in 1..Len(inputs) : related[k] = inputs[k].id
            IN  /\ \A i \in 1..Len(emitted) : AllIds(emitted[i].relatedInputs)
                /\ \A i \in 1..Len(workflows[w].suggestions) :
                      /\ AllIds(workflows[w].suggestions[i].relatedInputs)
                      /\ \A k \in 1..Len(workflows[w].suggestions[i].relatedInputs) :
                            \E j \in 1..Len(inputs) :
                               workflows[w].suggestions[i].relatedInputs[k] = inputs[j].id

\* a workflow of two inputs completed with an error-fact suggestion and a
\* code-issue suggestion
C16_Witness ==
    \E w \in WorkflowIds :
        /\ workflows[w].status = "completed"
        /\ Len(workflows[w].inputs) = 2
        /\ \E i, j \in 1..Len(workflows[w].suggestions) :
              /\ workflows[w].suggestions[i].agent = <<"Error Analysis Agent">>
              /\ workflows[w].suggestions[j].agent = <<"Code Analysis Agent">>
              /\ Len(workflows[w].suggestions[i].relatedInputs) = 2

\* the same for the two late stages: a synthesized suggestion, the fallback
C16_SynthesisReached ==
    \E w \in WorkflowIds :
        /\ workflows[w].status = "completed"
        /\ Len(workflows[w].inputs) = 2
        /\ workflows[w].suggestions # <<>>
        /\ workflows[w].suggestions[1].title = <<"Code Quality Improvements">>

C16_FallbackReached ==
    \E w \in WorkflowIds :
        /\ workflows[w].status = "completed"
        /\ Len(workflows[w].inputs) = 2
        /\ workflows[w].suggestions = <<Fallback(<<1, 2>>)>>

\* the facts the compiler's first loop gathers from the tasks of a workflow
Facts(workflow) ==
    Gather(workflow.tasks, 1,
           [errors_found |-> <<>>, code_issues |-> <<>>, analysis_content |-> <<>>])

\* C17: the compiler emits min(3, number of error facts) suggestions from the
\* error facts, in fact order, followed by min(2, number of code-issue facts)
\* suggestions from the code-issue facts; the list never has more than 5
\* elements and every error-fact suggestion precedes every code-issue one.
C17_CutsAndOrder ==
    \A w \in WorkflowIds :
        (workflows[w].present /\ ~_compile_suggestions(workflows[w]).raised) =>
            LET emitted == _compile_suggestions(workflows[w]).suggestions
                errors == Facts(workflows[w]).errors_found
                issues == Facts(workflows[w]).code_issues
                ne == IF Len(errors) < 3 THEN Len(errors) ELSE 3
                ni == IF Len(issues) < 2 THEN Len(issues) ELSE 2
                FromErrors == {i \in 1..Len(emitted) :
                                 emitted[i].agent = <<"Error Analysis Agent">>}
                FromIssues == {i \in 1..Len(emitted) :
                                 emitted[i].agent = <<"Code Analysis Agent">>}
            IN  /\ FromErrors = 1..ne
                /\ FromIssues = (ne + 1)..(ne + ni)
                /\ \A i \in 1..ne : emitted[i].title = <<"Fix", errors[i].type, "Issue">>
                /\ \A j \in 1..ni : emitted[ne + j].title = <<"Improve", issues[j].category>>
                /\ Len(emitted) <= 5
                /\ ne + ni > 0 => Len(emitted) = ne + ni
                /\ \A i \in FromErrors, j \in FromIssues : i < j
                /\ workflows[w].status = "completed" => workflows[w].suggestions = emitted

\* four error facts and three code-issue facts were cut to three and two
C17_Witness ==
    \E w \in WorkflowIds :
        /\ workflows[w].status = "completed"
        /\ Len(Facts(workflows[w]).errors_found) = 4
        /\ Len(Facts(workflows[w]).code_issues) = 3
        /\ Len(workflows[w].suggestions) = 5
        /\ workflows[w].suggestions[3].agent = <<"Error Analysis Agent">>
        /\ workflows[w].suggestions[4].agent = <<"Code Analysis Agent">>

\* the generative service answered this task with raw text of more than 50
\* characters (for code analysis the answer is the ai_analysis part)
LongRawText(task) ==
    /\ task.status = "completed"
    /\ \/ (task.result.tag = "raw" /\ task.result.text.long)
       \/ /\ task.result.tag = "code"
          /\ task.result.ai_analysis.tag = "raw"
          /\ task.result.ai_analysis.text.long

\* C18: when the error facts and code-issue facts yield no suggestion and some
\* completed task, of whatever type, holds a raw-text answer of more than 50
\* characters, the compiler emits exactly one suggestion, of confidence 80,
\* synthesized from the first such task, and not "AI Analysis Unavailable"
\* (read off the list a completed workflow stores).
C18_SynthesisFromAnyTask ==
    \A w \in WorkflowIds :
        LET tasks == workflows[w].tasks
            emitted == workflows[w].suggestions
            hits == {i \in 1..Len(tasks) : LongRawText(tasks[i])}
            first == CHOOSE i \in hits : \A j \in hits : i <= j
        IN  (/\ workflows[w].status = "completed"
             /\ Facts(workflows[w]).errors_found = <<>>
             /\ Facts(workflows[w]).code_issues = <<>>
             /\ hits # {})
            => /\ Len(emitted) = 1
               /\ emitted[1].confidence = 80
               /\ emitted[1].agent = <<"AI", tasks[first].type, "Agent">>
               /\ emitted[1].title # <<"AI Analysis Unavailable">>

\* C18 for code analysis alone, the one task type the compiler's fourth stage
\* reads: the synthesis from the first code-analysis task with a long raw answer
C18_SynthesisFromCodeAnalysis ==
    \A w \in WorkflowIds :
        LET tasks == workflows[w].tasks
            emitted == workflows[w].suggestions
            hits == {i \in 1..Len(tasks) :
                        tasks[i].type = "code_analysis" /\ LongRawText(tasks[i])}
            first == CHOOSE i \in hits : \A j \in hits : i <= j
        IN  (/\ workflows[w].status = "completed"
             /\ Facts(workflows[w]).errors_found = <<>>
             /\ Facts(workflows[w]).code_issues = <<>>
             /\ hits # {})
            => /\ Len(emitted) = 1
               /\ emitted[1].confidence = 80
               /\ emitted[1].agent = <<"AI", tasks[first].type, "Agent">>
               /\ emitted[1].title = <<"Code Quality Improvements">>

\* C19: the error-detail extractor returns, for a structured result with a list
\* of k error types, k facts in list order, the i-th with the i-th severity of
\* the parallel list or "medium" when the list is too short, and confidence 85
\* for high or critical and 70 otherwise; for a raw-text result that mentions
\* "error" or "exception", the single fact "Runtime Error" of confidence 75;
\* for every other result, nothing.  Stated of every result a task holds.
C19_ErrorDetails ==
    \A w \in WorkflowIds :
        \A t \in 1..Len(workflows[w].tasks) :
            LET result == workflows[w].tasks[t].result
                facts == _extract_error_details(result)
            IN  IF result.tag = "errors"
                THEN /\ Len(facts) = Len(result.error_types)
                     /\ \A i \in 1..Len(facts) :
                           /\ facts[i].type = result.error_types[i]
                           /\ i <= Len(result.severity_levels)
                                => facts[i].severity = result.severity_levels[i]
                           /\ i > Len(result.severity_levels)
                                => facts[i].severity = "medium"
                           /\ facts[i].severity \in {"high", "critical"}
                                => facts[i].confidence = 85
                           /\ facts[i].severity \notin {"high", "critical"}
                                => facts[i].confidence = 70
                ELSE IF result.tag = "raw" /\ result.text.mentions_error
                THEN /\ Len(facts) = 1
                     /\ facts[1].type = "Runtime Error"
                     /\ facts[1].confidence = 75
                ELSE facts = <<>>

\* an error extraction returned four error types with two severities, and the
\* extractor gave four facts of confidence 85, 70, 70, 70
C19_Witness ==
    \E w \in WorkflowIds :
        \E t \in 1..Len(workflows[w].tasks) :
            LET task == workflows[w].tasks[t]
                facts == _extract_error_details(task.result)
            IN  /\ task.type = "error_extraction"
                /\ task.status = "completed"
                /\ task.result.tag = "errors"
                /\ Len(task.result.error_types) = 4
                /\ Len(task.result.severity_levels) = 2
                /\ [i \in 1..4 |-> facts[i].confidence] = <<85, 70, 70, 70>>
                /\ facts[3].severity = "medium"

\* the raw-text cases: a reply that mentions an error, a reply that does not
C19_RawTextReached ==
    \E w \in WorkflowIds :
        /\ Len(workflows[w].tasks) >= 4
        /\ workflows[w].tasks[1].result = Raw(ProseText)
        /\ workflows[w].tasks[2].result = Raw(QuietText)
        /\ Len(_extract_error_details(workflows[w].tasks[1].result)) = 1
        /\ _extract_error_details(workflows[w].tasks[2].result) = <<>>

\* C20: when the ai_analysis part of a code-analysis result is a direct array
\* of k issue objects, the code-issue extractor returns one fact per issue of
\* the heuristic scanner (confidence 90 for severity high, else 75) followed by
\* k facts, one per array element in order, each of confidence 85.
C20_DirectArrayFacts ==
    \A w \in WorkflowIds :
        \A t \in 1..Len(workflows[w].tasks) :
            LET result == workflows[w].tasks[t].result
                facts == _extract_code_issues(result)
            IN  (/\ result.tag = "code"
                 /\ result.ai_analysis.tag = "list"
                 /\ \A k \in 1..Len(result.ai_analysis.items) :
                       result.ai_analysis.items[k].is_dict)
                => LET direct == result.direct_issues
                       items == result.ai_analysis.items
                   IN  /\ Len(facts) = Len(direct) + Len(items)
                       /\ \A i \in 1..Len(direct) :
                             /\ facts[i].category = direct[i].type
                             /\ facts[i].confidence =
                                   IF direct[i].severity = "high" THEN 90 ELSE 75
                       /\ \A k \in 1..Len(items) :
                             /\ facts[Len(direct) + k].confidence = 85
                             /\ facts[Len(direct) + k].description = items[k].description

\* what the extractor does return for such a result: the scanner's facts alone
C20_DirectArrayIgnored ==
    \A w \in WorkflowIds :
        \A t \in 1..Len(workflows[w].tasks) :
            LET result == workflows[w].tasks[t].result IN
            (result.tag = "code" /\ result.ai_analysis.tag = "list")
            => /\ Len(_extract_code_issues(result)) = Len(result.direct_issues)
               /\ \A i \in 1..Len(result.direct_issues) :
                     _extract_code_issues(result)[i].confidence \in {75, 90}

\* C21: both result extractors are total: whatever result a task holds (nothing,
\* a falsy value, a dict of any shape, an array, a field of an unexpected type),
\* each returns a list and no exception of its body reaches the compiler, so
\* the compiler raises only when a suggestion fails validation; a shape that
\* neither extractor recognizes yields the empty list.
C21_ExtractorsTotal ==
    \A w \in WorkflowIds :
        /\ \A t \in 1..Len(workflows[w].tasks) :
             LET result == workflows[w].tasks[t].result IN
             /\ ~Propagates(ErrorDetailsBodyRaises(result))
             /\ ~Propagates(CodeIssuesBodyRaises(result))
             /\ Len(_extract_error_details(result)) >= 0
             /\ Len(_extract_code_issues(result)) >= 0
             /\ result.tag \notin {"errors", "raw", "code"}
                  => /\ _extract_error_details(result) = <<>>
                     /\ _extract_code_issues(result) = <<>>
        /\ (workflows[w].present /\ _compile_suggestions(workflows[w]).raised)
             => \E i \in 1..2 :
                  /\ i <= Len(Gather(workflows[w].tasks, 1,
                                     [errors_found |-> <<>>, code_issues |-> <<>>,
                                      analysis_content |-> <<>>]).code_issues)
                  /\ Gather(workflows[w].tasks, 1,
                            [errors_found |-> <<>>, code_issues |-> <<>>,
                             analysis_content |-> <<>>]).code_issues[i].description = "None"

\* a workflow completed although the body of each extractor had raised: on an
\* "error_types" that is no list, and on an array element with a null type
\* after one fact had been taken
C21_Witness ==
    \E w \in WorkflowIds :
        /\ workflows[w].status = "completed"
        /\ \E i, j \in 1..Len(workflows[w].tasks) :
              /\ workflows[w].tasks[i].type = "error_extraction"
              /\ workflows[w].tasks[i].status = "completed"
              /\ ErrorDetailsBodyRaises(workflows[w].tasks[i].result)
              /\ workflows[w].tasks[j].type = "code_analysis"
              /\ workflows[w].tasks[j].status = "completed"
              /\ CodeIssuesBodyRaises(workflows[w].tasks[j].result)
              /\ Len(_extract_code_issues(workflows[w].tasks[j].result)) = 1

\* C22: workflows are independent: a step of one workflow (its creation, a
\* task's status, result or error, progress, the suggestions, the terminal
\* status, the failure marking) leaves the tasks, progress, suggestions and
\* status of every other workflow unchanged, under every interleaving.
C22_WorkflowsIndependent ==
    [][\A a, b \in PairWorkflowIds :
        (a # b /\ (frames'[a] # frames[a] \/ workflows'[a] # workflows[a]))
        => /\ workflows'[b] = workflows[b]
           /\ frames'[b] = frames[b]
      ]_vars

\* two executions interleaved: one ended failed while the other, started
\* earlier from the same session, is inside its second handler
C22_Witness ==
    /\ workflows["wf2"].status = "failed"
    /\ frames["wf1"].pc = "handler"
    /\ frames["wf1"].idx = 2
    /\ workflows["wf1"].status = "analyzing"
    /\ workflows["wf1"].tasks[1].status = "completed"

\* C23: a task has a result only if it is completed and an error string only
\* if it is failed: pending and running tasks have neither, a failed task has
\* no result, a completed task has no error.
C23_ResultAndErrorByStatus ==
    \A w \in WorkflowIds :
        \A t \in 1..Len(workflows[w].tasks) :
            LET task == workflows[w].tasks[t] IN
            /\ task.result # NoResult => task.status = "completed"
            /\ task.error # NoError => task.status = "failed"
            /\ task.status \in {"pending", "running"}
                 => (task.result = NoResult /\ task.error = NoError)
            /\ task.status = "failed" => task.result = NoResult
            /\ task.status = "completed" => task.error = NoError

\* tasks in all four statuses at once
C23_Witness ==
    \E w \in WorkflowIds :
        \E a, b, c, d \in 1..Len(workflows[w].tasks) :
            /\ workflows[w].tasks[a].status = "failed"
            /\ workflows[w].tasks[a].error \in ExceptionMessages
            /\ workflows[w].tasks[b].status = "completed"
            /\ Truthy(workflows[w].tasks[b].result)
            /\ workflows[w].tasks[c].status = "running"
            /\ workflows[w].tasks[d].status = "pending"

\* what the planner fixed of a task: its id, agent, type and payload
Planned(task) ==
    [id |-> task.id, agentId |-> task.agentId, type |-> task.type, input |-> task.input]

\* C24: once start_analysis has created a workflow, no step changes its input
\* list nor the number, order, type or payload of its tasks; adding an input to
\* the session, uploading one, or clearing the session leaves the workflow as
\* it is.
C24_InputsImmutable ==
    [][\A w \in WorkflowIds :
        /\ workflows[w].present
             => /\ workflows'[w].present
                /\ workflows'[w].inputs = workflows[w].inputs
                /\ Len(workflows'[w].tasks) = Len(workflows[w].tasks)
                /\ \A i \in 1..Len(workflows[w].tasks) :
                      Planned(workflows'[w].tasks[i]) = Planned(workflows[w].tasks[i])
        /\ (analysis_queue' # analysis_queue /\ workflows[w].present)
             => workflows'[w] = workflows[w]
      ]_vars

\* a workflow of one uploaded input whose session was cleared and then given a
\* new input
C24_Witness ==
    \E w \in WorkflowIds, s \in SessionIds :
        /\ workflows[w].present
        /\ Len(workflows[w].inputs) = 1
        /\ workflows[w].inputs[1].is_file
        /\ workflows[w].inputs[1].id \notin uploads
        /\ analysis_queue[s].present
        /\ Len(analysis_queue[s].inputs) = 1
        /\ analysis_queue[s].inputs[1].id = 2
        /\ Len(workflows[w].tasks) = 3

\* C25: progress never decreases between successive executions of a workflow:
\* when _execute_workflow is invoked again on a workflow it has executed, no
\* step lowers the progress.
C25_ProgressAcrossExecutions ==
    [][\A w \in WorkflowIds : Leq(workflows[w].progress, workflows'[w].progress)]_vars

\* the same workflow with another outcome of its documentation_search task:
\* failed, or completed with the given result
WithDocumentation(workflow, status, result) ==
    [workflow EXCEPT !.tasks = [i \in 1..Len(@) |->
        IF @[i].type = "documentation_search"
        THEN [@[i] EXCEPT !.status = status,
                          !.result = IF status = "completed" THEN result ELSE NoResult,
                          !.error = IF status = "failed" THEN "boom" ELSE NoError]
        ELSE @[i]]]

\* what a client sees of a suggestion list: length, titles, kinds, confidences
Visible(suggestions) ==
    [i \in 1..Len(suggestions) |->
        <<suggestions[i].title, suggestions[i].type, suggestions[i].confidence>>]

\* C26: the outcome of the documentation_search task is not consumed by the
\* compiler: two runs of a workflow that differ only in the status and result
\* of that task yield suggestion lists of the same length with the same
\* titles, kinds and confidences.
C26_DocumentationNotConsumed ==
    \A w \in WorkflowIds :
        (frames[w].pc = "done" /\ workflows[w].status = "completed") =>
            \A status \in {"completed", "failed"}, result \in GeminiOutcomes :
                LET other == _compile_suggestions(
                                 WithDocumentation(workflows[w], status, result))
                IN  /\ ~other.raised
                    /\ Visible(other.suggestions) = Visible(workflows[w].suggestions)

\* the suggestion of the raw-text synthesis, and the terminal fallback
Synthesized(suggestion) ==
    suggestion.title = <<"Code Quality Improvements">> /\ suggestion.confidence = 80
Unavailable(suggestion) == suggestion.title = <<"AI Analysis Unavailable">>

\* C27: the raw-text synthesis and the terminal fallback run only when the
\* error facts and code-issue facts gave nothing, and each emits one
\* suggestion: a list that holds the synthesized suggestion or the
\* "AI Analysis Unavailable" suggestion holds nothing else.
C27_LateStagesStandAlone ==
    \A w \in WorkflowIds :
        LET stored == workflows[w].suggestions
            facts == Facts(workflows[w])
        IN  /\ (\E i \in 1..Len(stored) : Synthesized(stored[i]) \/ Unavailable(stored[i]))
                 => /\ Len(stored) = 1
                    /\ facts.errors_found = <<>>
                    /\ facts.code_issues = <<>>
            /\ (workflows[w].status = "completed"
                    /\ (facts.errors_found # <<>> \/ facts.code_issues # <<>>))
                 => \A i \in 1..Len(stored) :
                       ~Synthesized(stored[i]) /\ ~Unavailable(stored[i])

\* a completed workflow with a code-issue suggestion whose code analysis holds
\* a raw reply of more than 50 characters the synthesis could have used
C27_Witness ==
    \E w \in WorkflowIds :
        /\ workflows[w].status = "completed"
        /\ Len(workflows[w].suggestions) = 1
        /\ workflows[w].suggestions[1].agent = <<"Code Analysis Agent">>
        /\ \E t \in 1..Len(workflows[w].tasks) : LongRawText(workflows[w].tasks[t])

\* C28: within one execution a task's status changes only from pending to
\* running and from running to completed or failed; completed and failed are
\* absorbing (no retry, no return to running), and no task goes from pending
\* directly to a terminal status.
C28_TaskStatusPath ==
    [][\A w \in WorkflowIds :
         \A i \in 1..Len(workflows[w].tasks) :
            LET before == workflows[w].tasks[i].status
                after == workflows'[w].tasks[i].status
            IN  /\ Len(workflows'[w].tasks) = Len(workflows[w].tasks)
                /\ before # after
                      => \/ (before = "pending" /\ after = "running")
                         \/ (before = "running" /\ after \in {"completed", "failed"})
      ]_vars

\* an ended execution that left one task failed and a later one completed
C28_Witness ==
    \E w \in WorkflowIds :
        /\ frames[w].pc = "done"
        /\ \E i, j \in 1..Len(workflows[w].tasks) :
              /\ i < j
              /\ workflows[w].tasks[i].status = "failed"
              /\ workflows[w].tasks[j].status = "completed"

\* C29: a workflow is created analyzing with an empty suggestion list; its
\* status changes at most once, from analyzing to completed or to failed, and
\* both are absorbing: never completed to failed (the background runner's
\* except branch included), failed to completed, or back to analyzing.
C29_WorkflowStatusPath ==
    [][\A w \in WorkflowIds :
         LET before == workflows[w]
             after == workflows'[w]
         IN  /\ (~before.present /\ after.present)
                   => (after.status = "analyzing" /\ after.suggestions = <<>>)
             /\ (before.present /\ before.status # after.status)
                   => /\ before.status = "analyzing"
                      /\ after.status \in {"completed", "failed"}
                      /\ frames'[w].pc = "done"
             /\ before.status = "analyzing" => before.suggestions = <<>>
      ]_vars

\* the executor marked the workflow completed after a task of it had failed,
\* and the background runner has returned
C29_Witness ==
    \E w \in WorkflowIds :
        /\ frames[w].pc = "done"
        /\ workflows[w].status = "completed"
        /\ workflows[w].stored
        /\ workflows[w].suggestions # <<>>
        /\ \E i \in 1..Len(workflows[w].tasks) : workflows[w].tasks[i].status = "failed"

\* the input files of a task's payload that are no longer on disk
Missing(task, files) ==
    {k \in 1..Len(task.input.items) :
        task.input.items[k].is_file /\ task.input.items[k].id \notin files}

\* C30: clearing a session deletes its queue entry and its uploaded files and
\* leaves the workflow table and the executor alone; a task dispatched after
\* that on a deleted file-backed input reads an inline error string and is
\* left running (the read sends nothing to the except branch); a stored
\* workflow stays stored and reaches a terminal status.
C30_ClearedSessionWorkflowRuns ==
    /\ [][\A w \in WorkflowIds :
            /\ (\E s \in SessionIds :
                    analysis_queue[s].present /\ ~analysis_queue'[s].present)
                  => (workflows' = workflows /\ frames' = frames)
            /\ (workflows[w].present /\ workflows[w].stored)
                  => (workflows'[w].present /\ workflows'[w].stored)
            /\ \A i \in 1..Len(workflows[w].tasks) :
                  LET task == workflows[w].tasks[i]
                      after == workflows'[w].tasks[i]
                  IN  (/\ task.status = "pending"
                       /\ after.status # "pending"
                       /\ task.type \in {"error_extraction", "code_analysis",
                                          "documentation_search"}
                       /\ Missing(task, uploads) # {})
                        => /\ after.status = "running"
                           /\ after.error = NoError
                           /\ "[Error reading file]" \in frames'[w].content
         ]_vars
    /\ \A w \in WorkflowIds :
          workflows[w].present ~> workflows[w].status \in {"completed", "failed"}

\* the session was cleared, and a handler of its workflow that read the error
\* string in place of a deleted file is awaiting the generative service
C30_Witness ==
    \E w \in WorkflowIds :
        /\ \A s \in SessionIds : ~analysis_queue[s].present
        /\ workflows[w].present /\ workflows[w].stored
        /\ workflows[w].status = "analyzing"
        /\ frames[w].pc = "handler"
        /\ workflows[w].tasks[frames[w].idx].status = "running"
        /\ "[Error reading file]" \in frames[w].content

\* the workflow of a cleared session completed with the task that read the
\* deleted file completed
C30_CompletedAfterClear ==
    \E w \in WorkflowIds :
        /\ \A s \in SessionIds : ~analysis_queue[s].present
        /\ workflows[w].status = "completed"
        /\ frames[w].pc = "done"
        /\ \E i \in 1..Len(workflows[w].tasks) :
              /\ workflows[w].tasks[i].status = "completed"
              /\ workflows[w].tasks[i].type = "code_analysis"
              /\ Missing(workflows[w].tasks[i], uploads) # {}

====
